---- MODULE Spec2Model ----
(***************************************************************************)
(* Model of git-sync's signal-by-name helper: pkg/gopsutil (process        *)
(* enumeration under HOST_PROC, Process.Name with the truncated-name       *)
(* recovery from cmdline, Process.SendSignal) and SignalProcs, the loop    *)
(* that signals every process whose name equals flProcName.                *)
(*                                                                         *)
(* Strings and byte slices are sequences of one-character strings, so that *)
(* splitting, trimming, prefix tests and integer parsing are computed the  *)
(* way the Go library computes them.                                       *)
(***************************************************************************)
EXTENDS Integers, Sequences, FiniteSets, TLC

VARIABLES
    dir,      \* the root directory: [ok, names]; names is the listing Readdirnames returns
    fs,       \* per process id, the status and cmdline records (as file descriptions)
    target,   \* flProcName
    procs,    \* the []*Process slice: a sequence of [Pid, name]
    pc,       \* position of the caller: "start", "loop", "done"
    idx,      \* loop index of SignalProcs (1-based)
    ret,      \* what the call returned: "none", "nil", "err"
    resolved, \* history: per visited handle, what Name() returned: [name, err]
    signals,  \* history: every SendSignal made: [idx, pid, ok]
    hist      \* history of direct Name() calls on procs[1]

vars == <<dir, fs, target, procs, pc, idx, ret, resolved, signals, hist>>

----------------------------------------------------------------------------
(* Bounds of the model *)

\* longest directory listing considered
MaxEntries == 2
\* status names range up to NameTruncLen + NameSlack characters
NameSlack == 1
\* number of direct Name() calls made on one handle
MaxCalls == 2

(* Program constants *)

\* gopsutil.go:91  if len(p.name) >= 15
NameTruncLen == 15

----------------------------------------------------------------------------
(* Characters *)

TAB == "\t"
NL == "\n"
SP == " "
NUL == "\\0"
SLASH == "/"
COLON == ":"

Digits == <<"0", "1", "2", "3", "4", "5", "6", "7", "8", "9">>

DigitSet == {Digits[i] : i \in 1..10}

DigitVal(c) == (CHOOSE i \in 1..10 : Digits[i] = c) - 1

Rep(c, n) == [i \in 1..n |-> c]

----------------------------------------------------------------------------
(* The Go library functions the code calls *)

\* index of the first c in s, 0 when there is none
IndexByte(s, c) ==
    IF \E i \in 1..Len(s) : s[i] = c
    THEN CHOOSE i \in 1..Len(s) : s[i] = c /\ \A j \in 1..(i-1) : s[j] # c
    ELSE 0

\* strings.Split / bytes.Split with a one-byte separator: always at least one part
RECURSIVE Split(_, _)
Split(s, c) ==
    LET i == IndexByte(s, c)
    IN IF i = 0 THEN <<s>>
       ELSE <<SubSeq(s, 1, i-1)>> \o Split(SubSeq(s, i+1, Len(s)), c)

\* strings.SplitN(s, sep, 2)
SplitN2(s, c) ==
    LET i == IndexByte(s, c)
    IN IF i = 0 THEN <<s>>
       ELSE <<SubSeq(s, 1, i-1), SubSeq(s, i+1, Len(s))>>

\* strings.TrimRight(s, cutset)
RECURSIVE TrimRight(_, _)
TrimRight(s, cut) ==
    IF Len(s) > 0 /\ s[Len(s)] \in cut
    THEN TrimRight(SubSeq(s, 1, Len(s)-1), cut)
    ELSE s

\* strings.TrimLeft(s, cutset)
RECURSIVE TrimLeft(_, _)
TrimLeft(s, cut) ==
    IF Len(s) > 0 /\ s[1] \in cut
    THEN TrimLeft(SubSeq(s, 2, Len(s)), cut)
    ELSE s

\* strings.Trim(s, cutset)
Trim(s, cut) == TrimRight(TrimLeft(s, cut), cut)

\* strings.HasPrefix(s, prefix)
HasPrefix(s, prefix) ==
    Len(s) >= Len(prefix) /\ SubSeq(s, 1, Len(prefix)) = prefix

\* index of the last c in s, 0 when there is none
LastIndexByte(s, c) ==
    IF \E i \in 1..Len(s) : s[i] = c
    THEN CHOOSE i \in 1..Len(s) : s[i] = c /\ \A j \in (i+1)..Len(s) : s[j] # c
    ELSE 0

\* filepath.Base on a slash-separated path
Base(path) ==
    IF path = <<>> THEN <<".">>
    ELSE LET stripped == TrimRight(path, {SLASH})
             last == SubSeq(stripped, LastIndexByte(stripped, SLASH) + 1, Len(stripped))
         IN IF last = <<>> THEN <<SLASH>> ELSE last

\* value of a digit string, most significant digit first
RECURSIVE DecimalValue(_)
DecimalValue(s) ==
    IF s = <<>> THEN 0
    ELSE 10 * DecimalValue(SubSeq(s, 1, Len(s)-1)) + DigitVal(s[Len(s)])

\* the decimal digits of 2^31, the cutoff of a 32-bit signed parse
Cutoff32 == <<"2", "1", "4", "7", "4", "8", "3", "6", "4", "8">>

\* a < b for digit strings of the same length
DigitsLess(a, b) ==
    \E i \in 1..Len(a) :
        /\ DigitVal(a[i]) < DigitVal(b[i])
        /\ \A j \in 1..(i-1) : a[j] = b[j]

\* strconv.ParseInt(s, 10, 32): [ok, val].  An optional sign, then one or more
\* decimal digits, the value within [-2^31, 2^31 - 1].
ParseInt32(s) ==
    LET signed == Len(s) > 0 /\ s[1] \in {"+", "-"}
        neg == Len(s) > 0 /\ s[1] = "-"
        body == IF signed THEN SubSeq(s, 2, Len(s)) ELSE s
        syntaxOK == Len(body) > 0 /\ \A i \in 1..Len(body) : body[i] \in DigitSet
        sig == TrimLeft(body, {"0"})
        below == Len(sig) < Len(Cutoff32)
                 \/ (Len(sig) = Len(Cutoff32) /\ DigitsLess(sig, Cutoff32))
        inRange == below \/ (neg /\ sig = Cutoff32)
    IN IF syntaxOK /\ inRange
       THEN [ok |-> TRUE,
             val |-> IF ~neg THEN DecimalValue(sig)
                     ELSE IF below THEN 0 - DecimalValue(sig)
                     ELSE (0 - 2147483647) - 1]
       ELSE [ok |-> FALSE, val |-> 0]

----------------------------------------------------------------------------
(* The process-information filesystem.  A record is kept as a description of
   the file; a read renders the description to the file's bytes, which the
   code then parses. *)

NameKey == <<"N", "a", "m", "e">>

StateLine == <<"S", "t", "a", "t", "e", COLON, TAB, "S">>

\* the bytes of a status record
StatusBytes(st) ==
    IF st.kind = "noname" THEN StateLine \o <<NL>>
    ELSE NameKey \o <<COLON, TAB>>
         \o (IF st.pad THEN <<SP>> ELSE <<>>) \o st.nm
         \o (IF st.pad THEN <<TAB, SP>> ELSE <<>>)
         \o <<NL>> \o StateLine \o <<NL>>

\* the first argument a cmdline description stands for
Arg0(cl) == cl.dirp \o cl.base

\* the bytes of a cmdline record
CmdlineBytes(cl) ==
    IF cl.kind = "zero" THEN <<>>
    ELSE IF cl.kind = "onenul" THEN <<NUL>>
    ELSE Arg0(cl) \o <<NUL, "-", "v">> \o (IF cl.term THEN <<NUL>> ELSE <<>>)

\* ioutil.ReadFile(hostProc(pid, "status")): [err, data]
ReadStatus(pid) ==
    IF pid \notin DOMAIN fs \/ fs[pid].status.kind = "err"
    THEN [err |-> TRUE, data |-> <<>>]
    ELSE [err |-> FALSE, data |-> StatusBytes(fs[pid].status)]

\* ioutil.ReadFile(hostProc(pid, "cmdline")): [err, data]
ReadCmdline(pid) ==
    IF pid \notin DOMAIN fs \/ fs[pid].cmdline.kind = "err"
    THEN [err |-> TRUE, data |-> <<>>]
    ELSE [err |-> FALSE, data |-> CmdlineBytes(fs[pid].cmdline)]

----------------------------------------------------------------------------
(* pkg/gopsutil *)

\* readPidsFromDir: [err, pids]; entries ParseInt rejects are skipped
RECURSIVE PidsOf(_)
PidsOf(fnames) ==
    IF fnames = <<>> THEN <<>>
    ELSE LET r == ParseInt32(Head(fnames))
         IN (IF r.ok THEN <<r.val>> ELSE <<>>) \o PidsOf(Tail(fnames))

readPidsFromDir(d) ==
    IF ~d.ok THEN [err |-> TRUE, pids |-> <<>>]
    ELSE [err |-> FALSE, pids |-> PidsOf(d.names)]

\* ProcessesWithContext: [err, out]; one fresh Process per pid, in order
ProcessesWithContext(d) ==
    LET r == readPidsFromDir(d)
    IN IF r.err THEN [err |-> TRUE, out |-> <<>>]
       ELSE [err |-> FALSE,
             out |-> [i \in 1..Len(r.pids) |-> [Pid |-> r.pids[i], name |-> <<>>]]]

\* fillSliceFromCmdlineWithContext: [err, slice, reads]
fillSliceFromCmdline(pid) ==
    LET f == ReadCmdline(pid)
    IN IF f.err THEN [err |-> TRUE, slice |-> <<>>]
       ELSE IF Len(f.data) = 0 THEN [err |-> FALSE, slice |-> <<>>]
       ELSE LET cmdline == IF f.data[Len(f.data)] = NUL
                           THEN SubSeq(f.data, 1, Len(f.data) - 1)
                           ELSE f.data
            IN [err |-> FALSE, slice |-> Split(cmdline, NUL)]

NeedsCmdline_off_by_one(nm) == Len(nm) > NameTruncLen

\* gopsutil.go:91  len(p.name) >= 15
NeedsCmdline(nm) == Len(nm) >= NameTruncLen

ExtendedOrRaw_always_base(nm, arg0) == Base(arg0)

\* gopsutil.go:97-102: the name adopted from the first argument
ExtendedOrRaw(nm, arg0) ==
    LET extendedName == Base(arg0)
    IN IF HasPrefix(extendedName, nm) THEN extendedName ELSE arg0

\* One pass of the loop body over a status line.  acc is [name, err, creads]:
\* p.name so far, whether the function has returned an error, and the number
\* of cmdline reads made.
NameLine(acc, line, pid) ==
    IF acc.err THEN acc
    ELSE LET tabParts == SplitN2(line, TAB)
         IN IF Len(tabParts) < 2 THEN acc
            ELSE IF TrimRight(tabParts[1], {COLON}) # NameKey THEN acc
            ELSE LET nm == Trim(tabParts[2], {SP, TAB})
                 IN IF ~NeedsCmdline(nm) THEN [acc EXCEPT !.name = nm]
                    ELSE LET r == fillSliceFromCmdline(pid)
                         IN IF r.err
                            THEN [name |-> nm, err |-> TRUE, creads |-> acc.creads + 1]
                            ELSE IF Len(r.slice) > 0
                            THEN [name |-> ExtendedOrRaw(nm, r.slice[1]), err |-> FALSE,
                                  creads |-> acc.creads + 1]
                            ELSE [name |-> nm, err |-> FALSE, creads |-> acc.creads + 1]

RECURSIVE NameLines(_, _, _)
NameLines(acc, lines, pid) ==
    IF lines = <<>> THEN acc
    ELSE NameLines(NameLine(acc, Head(lines), pid), Tail(lines), pid)

IsCached_never(p) == FALSE

\* gopsutil.go:74  the cached name is used unless it is empty
IsCached(p) == p.name # <<>>

\* NameWithContext on handle p: [p, name, err, sreads, creads], p the handle
\* afterwards, (name, err) the returned pair, and the reads it made
NameWithContext(p) ==
    IF IsCached(p)
    THEN [p |-> p, name |-> p.name, err |-> FALSE, sreads |-> 0, creads |-> 0]
    ELSE LET f == ReadStatus(p.Pid)
         IN IF f.err
            THEN [p |-> p, name |-> <<>>, err |-> TRUE, sreads |-> 1, creads |-> 0]
            ELSE LET acc == NameLines([name |-> p.name, err |-> FALSE, creads |-> 0],
                                      Split(f.data, NL), p.Pid)
                 IN [p |-> [p EXCEPT !.name = acc.name],
                     name |-> IF acc.err THEN <<>> ELSE acc.name,
                     err |-> acc.err, sreads |-> 1, creads |-> acc.creads]

\* SendSignalWithContext: os.FindProcess does not fail on this platform, and
\* process.Signal succeeds or fails as the host decides (delivered)
SendSignalWithContext(p, delivered) == [err |-> ~delivered]

----------------------------------------------------------------------------
(* Inputs *)

\* the injective sequences over S of length at most n: directory listings
Listings(S, n) ==
    {l \in UNION {[1..k -> S] : k \in 0..n} :
        \A i, j \in DOMAIN l : i # j => l[i] # l[j]}

NameLens == {0, 1} \cup ((NameTruncLen - 1)..(NameTruncLen + NameSlack))

StatusNames == {Rep("a", k) : k \in NameLens}

ErrStatus == [kind |-> "err", nm |-> <<>>, pad |-> FALSE]

NoNameStatus == [kind |-> "noname", nm |-> <<>>, pad |-> FALSE]

SingleName(nm, pad) == [kind |-> "single", nm |-> nm, pad |-> pad]

StatusFiles ==
    {ErrStatus, NoNameStatus} \cup {SingleName(n, q) : n \in StatusNames, q \in BOOLEAN}

UsrBin == <<SLASH, "u", "s", "r", SLASH, "b", "i", "n", SLASH>>

Bases ==
    {Rep("a", k) : k \in (NameTruncLen - 1)..(NameTruncLen + NameSlack + 1)}
    \cup {Rep("b", NameTruncLen + 1)}

ErrCmdline == [kind |-> "err", dirp |-> <<>>, base |-> <<>>, term |-> FALSE]

ZeroCmdline == [kind |-> "zero", dirp |-> <<>>, base |-> <<>>, term |-> FALSE]

OneNulCmdline == [kind |-> "onenul", dirp |-> <<>>, base |-> <<>>, term |-> FALSE]

Args(dirp, base, term) == [kind |-> "args", dirp |-> dirp, base |-> base, term |-> term]

CmdlineFiles ==
    {ErrCmdline, ZeroCmdline, OneNulCmdline, Args(<<>>, <<>>, TRUE)}
    \cup {Args(d, b, t) : d \in {<<>>, UsrBin}, b \in Bases, t \in BOOLEAN}

\* what a process's records become when it exits, and when it execs a shell
Exited == [status |-> ErrStatus, cmdline |-> ErrCmdline]

Execed == [status |-> SingleName(<<"s", "h">>, FALSE),
           cmdline |-> Args(<<SLASH, "b", "i", "n", SLASH>>, <<"s", "h">>, TRUE)]

Self == <<"s", "e", "l", "f">>

\* entry names of the root directory, for the enumeration alone
EnumEntries ==
    {<<"1">>, <<"1", "2">>, <<"0", "0", "7">>, <<"0">>, <<"-", "1">>, <<"+", "2">>,
     <<"1", "a">>, Self, <<"2", "1", "4", "7", "4", "8", "3", "6", "4", "8">>,
     <<"1", "_", "0">>}

\* the world SignalProcs runs in
SignalEntries == {<<"1">>, <<"2">>, Self}

SignalPids == {1, 2}

SignalRecords ==
    [status : {ErrStatus, NoNameStatus, SingleName(<<"a">>, FALSE),
               SingleName(Rep("a", NameTruncLen), FALSE)},
     cmdline : {ErrCmdline, OneNulCmdline,
                Args(UsrBin, Rep("a", NameTruncLen + 1), TRUE)}]

Targets == {<<>>, <<"a">>, Rep("a", NameTruncLen), Rep("a", NameTruncLen + 1)}

----------------------------------------------------------------------------
(* The environment: a process exits, or replaces its image, at any time *)

ProcExit(pid) ==
    /\ pid \in DOMAIN fs
    /\ fs[pid] # Exited
    /\ fs' = [fs EXCEPT ![pid] = Exited]
    /\ UNCHANGED <<dir, target, procs, pc, idx, ret, resolved, signals, hist>>

ProcExec(pid) ==
    /\ pid \in DOMAIN fs
    /\ fs[pid] \notin {Exited, Execed}
    /\ fs' = [fs EXCEPT ![pid] = Execed]
    /\ UNCHANGED <<dir, target, procs, pc, idx, ret, resolved, signals, hist>>

----------------------------------------------------------------------------
(* SignalProcs(flProcName, flProcSignal), one action per step of its loop *)

\* lines 11-14: enumerate, and return the error if that fails
SPCall ==
    /\ pc = "start"
    /\ LET r == ProcessesWithContext(dir)
       IN /\ procs' = r.out
          /\ IF r.err THEN pc' = "done" /\ ret' = "err"
                      ELSE pc' = "loop" /\ ret' = ret
    /\ idx' = 1
    /\ UNCHANGED <<dir, fs, target, resolved, signals, hist>>

\* line 16  name, _ := procs[idx].Name(): whether the loop returns on r's error
NameError(r) == FALSE

\* line 17  name == flProcName
Matches(name, flProcName) == name = flProcName

SendError_ignored(e) == FALSE

\* lines 19-21  if err != nil { return err }
SendError(e) == e.err

\* lines 15-23: one iteration of the loop, on procs[idx]
SPIter ==
    /\ pc = "loop"
    /\ idx <= Len(procs)
    /\ LET r == NameWithContext(procs[idx])
       IN /\ procs' = [procs EXCEPT ![idx] = r.p]
          /\ resolved' = Append(resolved, [name |-> r.name, err |-> r.err])
          /\ IF NameError(r)
             THEN /\ pc' = "done" /\ ret' = "err"
                  /\ UNCHANGED <<idx, signals>>
             ELSE IF Matches(r.name, target)
             THEN \E delivered \in BOOLEAN :
                    LET e == SendSignalWithContext(r.p, delivered)
                    IN /\ signals' = Append(signals,
                                [idx |-> idx, pid |-> r.p.Pid, ok |-> ~e.err])
                       /\ IF SendError(e)
                          THEN pc' = "done" /\ ret' = "err" /\ idx' = idx
                          ELSE pc' = pc /\ ret' = ret /\ idx' = idx + 1
             ELSE /\ idx' = idx + 1
                  /\ UNCHANGED <<pc, ret, signals>>
    /\ UNCHANGED <<dir, fs, target, hist>>

\* line 24: the loop is over, return nil
SPReturn ==
    /\ pc = "loop"
    /\ idx > Len(procs)
    /\ pc' = "done"
    /\ ret' = "nil"
    /\ UNCHANGED <<dir, fs, target, procs, idx, resolved, signals, hist>>

Init ==
    /\ dir \in {[ok |-> FALSE, names |-> <<>>]}
               \cup {[ok |-> TRUE, names |-> l] : l \in Listings(SignalEntries, MaxEntries)}
    /\ fs \in [SignalPids -> SignalRecords]
    /\ target \in Targets
    /\ procs = <<>>
    /\ pc = "start"
    /\ idx = 0
    /\ ret = "none"
    /\ resolved = <<>>
    /\ signals = <<>>
    /\ hist = <<>>

Next ==
    \/ SPCall
    \/ SPIter
    \/ SPReturn
    \/ \E pid \in SignalPids : ProcExit(pid)

Spec == Init /\ [][Next]_vars

----------------------------------------------------------------------------
(* Process.Name called directly, and repeatedly, on one handle *)

\* gopsutil.Processes()
Enumerate ==
    /\ pc = "start"
    /\ LET r == ProcessesWithContext(dir)
       IN /\ procs' = r.out
          /\ IF r.err THEN pc' = "done" /\ ret' = "err"
                      ELSE pc' = "ready" /\ ret' = "nil"
    /\ UNCHANGED <<dir, fs, target, idx, resolved, signals, hist>>

\* procs[1].Name(); the history keeps the handle's cached name before the call,
\* the records as they were, the returned pair and the reads made
NameCall ==
    /\ pc = "ready"
    /\ procs # <<>>
    /\ Len(hist) < MaxCalls
    /\ LET p == procs[1]
           r == NameWithContext(p)
       IN /\ procs' = [procs EXCEPT ![1] = r.p]
          /\ hist' = Append(hist,
                [pre |-> p.name, post |-> r.p.name,
                 st |-> fs[p.Pid].status, cl |-> fs[p.Pid].cmdline,
                 name |-> r.name, err |-> r.err,
                 sreads |-> r.sreads, creads |-> r.creads])
    /\ UNCHANGED <<dir, fs, target, pc, idx, ret, resolved, signals>>

InitName ==
    /\ dir = [ok |-> TRUE, names |-> <<Self, <<"1">>>>]
    /\ fs \in [{1} -> [status : StatusFiles, cmdline : CmdlineFiles]]
    /\ target = <<>>
    /\ procs = <<>>
    /\ pc = "start"
    /\ idx = 0
    /\ ret = "none"
    /\ resolved = <<>>
    /\ signals = <<>>
    /\ hist = <<>>

NextName ==
    \/ Enumerate
    \/ NameCall
    \/ ProcExit(1)
    \/ ProcExec(1)

SpecName == InitName /\ [][NextName]_vars

----------------------------------------------------------------------------
(* Enumeration over every listing of the root directory *)

InitEnum ==
    /\ dir \in {[ok |-> FALSE, names |-> <<>>]}
               \cup {[ok |-> TRUE, names |-> l] : l \in Listings(EnumEntries, MaxEntries)}
    /\ fs = [pid \in {1} |-> Exited]
    /\ target = <<>>
    /\ procs = <<>>
    /\ pc = "start"
    /\ idx = 0
    /\ ret = "none"
    /\ resolved = <<>>
    /\ signals = <<>>
    /\ hist = <<>>

NextEnum == Enumerate

SpecEnum == InitEnum /\ [][NextEnum]_vars

----------------------------------------------------------------------------
(* Properties of SignalProcs (specification Spec) *)

\* the handle indices among 1..n whose Name() succeeded with a name equal to
\* flProcName, in enumeration order
RECURSIVE MatchedUpTo(_)
MatchedUpTo(n) ==
    IF n = 0 THEN <<>>
    ELSE MatchedUpTo(n - 1)
         \o (IF ~resolved[n].err /\ resolved[n].name = target THEN <<n>> ELSE <<>>)

\* C1: a signal is delivered to a process only if its name resolution
\* succeeded and the resolved name equals flProcName, for every flProcName,
\* the empty string included.
C1_OnlyResolvedMatchesSignaled ==
    \A k \in 1..Len(signals) :
        signals[k].ok =>
            /\ ~resolved[signals[k].idx].err
            /\ resolved[signals[k].idx].name = target

\* C2: a failed name resolution ends the call with an error at once: nothing
\* later in enumeration order is resolved or signaled.
C2_ResolutionFailureAborts ==
    \A i \in 1..Len(resolved) :
        resolved[i].err =>
            /\ pc = "done" /\ ret = "err"
            /\ Len(resolved) = i
            /\ \A k \in 1..Len(signals) : signals[k].idx <= i

\* C3: on a successful return the deliveries made are exactly the handles
\* whose resolved name equals flProcName, once each, in enumeration order
\* (none when nothing matches).
C3_SuccessSignalsExactlyMatches ==
    (pc = "done" /\ ret = "nil") =>
        /\ Len(resolved) = Len(procs)
        /\ \A k \in 1..Len(signals) : signals[k].ok
        /\ [k \in 1..Len(signals) |-> signals[k].idx] = MatchedUpTo(Len(resolved))

\* C4: a failed delivery is the last thing the call does: it returns the
\* error, visits no later handle, does not retry, and every delivery made
\* before it stays made.
C4_DeliveryFailureAborts ==
    \A k \in 1..Len(signals) :
        ~signals[k].ok =>
            /\ k = Len(signals)
            /\ pc = "done" /\ ret = "err"
            /\ Len(resolved) = signals[k].idx
            /\ \A j \in 1..(k - 1) : signals[j].ok /\ signals[j].idx < signals[k].idx

\* C4 happens: delivery to the first of two handles failed, the second, which
\* would match too, was never visited
C4_Witness ==
    /\ Len(procs) = 2
    /\ pc = "done"
    /\ Len(signals) = 1 /\ ~signals[1].ok /\ signals[1].idx = 1
    /\ target = <<"a">>
    /\ fs[procs[2].Pid].status = SingleName(<<"a">>, FALSE)

----------------------------------------------------------------------------
(* Properties of the enumeration (specification SpecEnum) *)

\* a non-empty string of decimal digits
IsDecimal(s) == Len(s) > 0 /\ \A i \in 1..Len(s) : s[i] \in DigitSet

\* C5: the handles are those of the entries whose whole name is a
\* non-negative decimal integer, so no handle has a negative id.
C5_OnlyNonNegativeDecimalEntries ==
    pc = "ready" =>
        /\ Len(procs) = Cardinality({i \in 1..Len(dir.names) : IsDecimal(dir.names[i])})
        /\ \A i \in 1..Len(procs) : procs[i].Pid >= 0

----------------------------------------------------------------------------
(* Properties of Process.Name (specification SpecName) *)

\* a call that found the handle's cached name empty and a status record with
\* one Name line
Fresh(h) == h.pre = <<>> /\ h.st.kind = "single"

\* b begins with a
Extends(b, a) == Len(b) >= Len(a) /\ \A i \in 1..Len(a) : b[i] = a[i]

\* C6: with a status name of 15 characters or more and a non-empty first
\* argument, the result is the first argument's base name when that begins
\* with the status name, and the first argument as it stands otherwise.
C6_ExtendedOrRawName ==
    \A k \in 1..Len(hist) :
        LET h == hist[k]
        IN (Fresh(h) /\ Len(h.st.nm) >= NameTruncLen
            /\ h.cl.kind = "args" /\ h.cl.base # <<>>) =>
               /\ ~h.err
               /\ h.name = IF Extends(h.cl.base, h.st.nm) THEN h.cl.base ELSE Arg0(h.cl)

\* C6 happens: a first argument with a directory part, whose base name does
\* not extend the status name, was returned whole
C6_Witness ==
    \E k \in 1..Len(hist) :
        LET h == hist[k]
        IN /\ Fresh(h) /\ Len(h.st.nm) >= NameTruncLen
           /\ h.cl.kind = "args" /\ h.cl.base # <<>> /\ h.cl.dirp # <<>>
           /\ ~Extends(h.cl.base, h.st.nm)
           /\ h.name = Arg0(h.cl)

\* C7: the cmdline record is read exactly when the trimmed Name value has 15
\* characters or more; a value of 1 to 14 characters is returned as it is,
\* without error, whatever the cmdline record.
C7_CmdlineReadOnlyFromThreshold ==
    \A k \in 1..Len(hist) :
        LET h == hist[k]
        IN Fresh(h) =>
               /\ (h.creads > 0) <=> (Len(h.st.nm) >= NameTruncLen)
               /\ (Len(h.st.nm) \in 1..(NameTruncLen - 1)) => (~h.err /\ h.name = h.st.nm)

\* C7 happens: a padded name one short of the threshold, an unreadable cmdline
C7_Witness ==
    \E k \in 1..Len(hist) :
        LET h == hist[k]
        IN /\ Fresh(h) /\ Len(h.st.nm) = NameTruncLen - 1 /\ h.st.pad
           /\ h.cl.kind = "err"
           /\ ~h.err /\ h.name = h.st.nm /\ h.creads = 0

\* C8 as stated: after any successful call, every later call returns the
\* same name and reads nothing.
C8_MemoizedWhateverFirstResult ==
    \A i, j \in 1..Len(hist) :
        (i < j /\ ~hist[i].err) =>
            /\ ~hist[j].err /\ hist[j].name = hist[i].name
            /\ hist[j].sreads = 0 /\ hist[j].creads = 0

\* C8 amended: after a successful call that returned a non-empty name, every
\* later call returns the same name and reads nothing.
C8_MemoizedAfterNonEmptyResult ==
    \A i, j \in 1..Len(hist) :
        (i < j /\ ~hist[i].err /\ hist[i].name # <<>>) =>
            /\ ~hist[j].err /\ hist[j].name = hist[i].name
            /\ hist[j].sreads = 0 /\ hist[j].creads = 0

\* C8 happens: the records became unreadable between two calls and the second
\* call still returned the first one's name
C8_Witness ==
    /\ Len(hist) = 2
    /\ ~hist[1].err /\ hist[1].name # <<>>
    /\ hist[2].st = ErrStatus /\ hist[1].st # ErrStatus
    /\ hist[2].name = hist[1].name

\* C9: with a status name of 15 characters or more and a cmdline record of no
\* argument content (no bytes, or the one NUL), the status name is returned.
C9_EmptyCmdlineKeepsName ==
    \A k \in 1..Len(hist) :
        LET h == hist[k]
        IN (Fresh(h) /\ Len(h.st.nm) >= NameTruncLen
            /\ h.cl.kind \in {"zero", "onenul"}) =>
               (~h.err /\ h.name = h.st.nm)

\* C10: a call that returns an error leaves the cached name empty, and the next
\* call, with the records as they were, returns the error again.
C10_FailureLeavesHandleUnchanged ==
    \A k \in 1..Len(hist) :
        hist[k].err =>
            /\ hist[k].post = <<>>
            /\ (k < Len(hist) /\ hist[k+1].st = hist[k].st /\ hist[k+1].cl = hist[k].cl)
                   => hist[k+1].err

====
